---- MODULE Spec2Model ----
(***************************************************************************)
(* Model of the image upload server (src/index.js): POST /upload,          *)
(* GET /images and DELETE /images over a local uploads/ directory, the     *)
(* EXIF extraction service, the reverse geocoder and the module src/db.js, *)
(* which exports no query function: every db.query call of a handler       *)
(* throws a TypeError before a statement reaches a database.               *)
(*                                                                         *)
(* JavaScript values are records tagged by t: undefined, null, boolean,    *)
(* string (s: a sequence of one-character strings) and number (k: "nan",   *)
(* "inf" or "fin"; neg: the sign; m, e: the decimal m * 10^-e that         *)
(* Number::toString prints for the double, m its digits with neither a     *)
(* leading nor a trailing zero).                                           *)
(***************************************************************************)
EXTENDS Integers, Sequences, FiniteSets

\* ------------------------------------------------------------------------
\* Bounds of the model
\* ------------------------------------------------------------------------
\* Upload requests received over a run.
MaxUploads == 2
\* Files one upload request may carry.
MaxFiles == 2

\* ------------------------------------------------------------------------
\* JavaScript values
\* ------------------------------------------------------------------------
Undefined == [t |-> "undefined"]
Null == [t |-> "null"]
Bool(b) == [t |-> "boolean", b |-> b]
Str(s) == [t |-> "string", s |-> s]
NaN == [t |-> "number", k |-> "nan", neg |-> FALSE, m |-> <<>>, e |-> 0]
Inf(neg) == [t |-> "number", k |-> "inf", neg |-> neg, m |-> <<>>, e |-> 0]

\* 10^n and 2^n for small n.
Pow10(n) == <<1, 10, 100, 1000, 10000, 100000, 1000000>>[n + 1]
Pow2(n) == <<1, 2, 4, 8, 16, 32, 64, 128>>[n + 1]

Digits == <<"0", "1", "2", "3", "4", "5", "6", "7", "8", "9">>
DigitChars == {"0", "1", "2", "3", "4", "5", "6", "7", "8", "9"}
IsDigit(c) == c \in DigitChars
DigitVal(c) == (CHOOSE i \in 1..10 : Digits[i] = c) - 1

\* Decimal digits of the natural number n, padded with zeros to width w.
RECURSIVE NatToChars(_, _)
NatToChars(n, w) ==
  IF n < 10 /\ w <= 1 THEN <<Digits[n + 1]>>
  ELSE Append(NatToChars(n \div 10, w - 1), Digits[(n % 10) + 1])

\* The finite number (-1)^neg * ds * 10^-e, for digits ds that neither
\* start nor end with a zero.
FinDigits(neg, ds, e) == [t |-> "number", k |-> "fin", neg |-> neg, m |-> ds, e |-> e]

\* Zero, of either sign.
Zero(neg) == FinDigits(neg, <<"0">>, 0)

\* The finite number (-1)^neg * m * 10^-e for a decimal m of at most nine
\* digits, in normal form: the digits of m without trailing zeros (e may be
\* negative), and zero has e = 0.
RECURSIVE Fin(_, _, _)
Fin(neg, m, e) ==
  IF m = 0 THEN Zero(neg)
  ELSE IF m % 10 = 0 THEN Fin(neg, m \div 10, e - 1)
  ELSE FinDigits(neg, NatToChars(m, 1), e)

IsFinite(v) == v.t = "number" /\ v.k = "fin"

\* Does the sequence p occur in s at position i?
StartsAt(s, i, p) ==
  /\ i + Len(p) - 1 <= Len(s)
  /\ \A j \in 1..Len(p) : s[i + j - 1] = p[j]

\* Position after the run of characters of the set cs that starts at
\* position i of s.
RunEnd(s, i, cs) ==
  IF i > Len(s) THEN i
  ELSE CHOOSE j \in i..(Len(s) + 1) :
         /\ j = Len(s) + 1 \/ s[j] \notin cs
         /\ \A k \in i..(j - 1) : s[k] \in cs

\* Length of the run of decimal digits of s that starts at position i.
DigitRun(s, i) == RunEnd(s, i, DigitChars) - i

\* Number of zeros at the start of the digits ds, from position i on.
LeadingZeros(ds, i) == RunEnd(ds, i, {"0"}) - i

\* Number of zeros at the end of the digits ds, from position i down.
TrailingZeros(ds, i) ==
  IF \A j \in 1..i : ds[j] = "0" THEN i
  ELSE i - (CHOOSE j \in 1..i : ds[j] # "0" /\ \A k \in (j + 1)..i : ds[k] = "0")

\* The string of n characters c.
Repeat(c, n) == [i \in 1..n |-> c]

\* Number::toString of the finite non-zero number with digits ds (k of
\* them) whose decimal point stands after the n-th digit.
DigitsToString(ds, k, n) ==
  IF k <= n /\ n <= 21 THEN ds \o Repeat("0", n - k)
  ELSE IF 0 < n /\ n <= 21 THEN SubSeq(ds, 1, n) \o <<".">> \o SubSeq(ds, n + 1, k)
  ELSE IF -6 < n /\ n <= 0 THEN <<"0", ".">> \o Repeat("0", 0 - n) \o ds
  ELSE (IF k = 1 THEN ds ELSE <<ds[1], ".">> \o SubSeq(ds, 2, k))
       \o <<"e", IF n - 1 < 0 THEN "-" ELSE "+">>
       \o NatToChars(IF n - 1 < 0 THEN 1 - n ELSE n - 1, 1)

\* Number::toString.
NumberToString(v) ==
  IF v.k = "nan" THEN <<"N", "a", "N">>
  ELSE IF v.k = "inf"
    THEN (IF v.neg THEN <<"-">> ELSE <<>>) \o <<"I", "n", "f", "i", "n", "i", "t", "y">>
  ELSE IF v.m = <<"0">> THEN <<"0">>
  ELSE (IF v.neg THEN <<"-">> ELSE <<>>) \o DigitsToString(v.m, Len(v.m), Len(v.m) - v.e)

\* The abstract operation JsToString.
JsToString(v) ==
  CASE v.t = "undefined" -> <<"u", "n", "d", "e", "f", "i", "n", "e", "d">>
    [] v.t = "null" -> <<"n", "u", "l", "l">>
    [] v.t = "boolean" -> IF v.b THEN <<"t", "r", "u", "e">> ELSE <<"f", "a", "l", "s", "e">>
    [] v.t = "string" -> v.s
    [] v.t = "number" -> NumberToString(v)

\* The abstract operation ToBoolean (what ! and || test).
Truthy(v) ==
  CASE v.t = "undefined" -> FALSE
    [] v.t = "null" -> FALSE
    [] v.t = "boolean" -> v.b
    [] v.t = "string" -> Len(v.s) > 0
    [] v.t = "number" -> ~(v.k = "nan" \/ (v.k = "fin" /\ v.m = <<"0">>))

\* ------------------------------------------------------------------------
\* Natural numbers of any size
\* ------------------------------------------------------------------------
\* A natural number is the sequence of its base-10^7 limbs, the lowest
\* first and the highest not zero; zero is the empty sequence.
Limb(x) == x % 10000000
Carry(x) == x \div 10000000

MaxOf(S) == CHOOSE i \in S : \A j \in S : j <= i
MinOf(S) == CHOOSE i \in S : \A j \in S : i <= j
Positive(n) == IF n > 0 THEN n ELSE 0

\* The limbs a without the zeros above its highest limb that is not zero.
BigTrim(a) ==
  IF a = <<>> THEN <<>>
  ELSE SubSeq(a, 1, IF a[Len(a)] # 0 THEN Len(a)
                    ELSE MaxOf({0} \cup {i \in 1..Len(a) : a[i] # 0}))

\* The digit of ds at position p, zero before its first digit.
DigitAt(ds, p) == IF p >= 1 /\ p <= Len(ds) THEN DigitVal(ds[p]) ELSE 0

\* The number written by the decimal digits ds.
BigFromDigits(ds) ==
  BigTrim([i \in 1..((Len(ds) + 6) \div 7) |->
             DigitAt(ds, Len(ds) - 7 * (i - 1))
             + 10 * DigitAt(ds, Len(ds) - 7 * (i - 1) - 1)
             + 100 * DigitAt(ds, Len(ds) - 7 * (i - 1) - 2)
             + 1000 * DigitAt(ds, Len(ds) - 7 * (i - 1) - 3)
             + 10000 * DigitAt(ds, Len(ds) - 7 * (i - 1) - 4)
             + 100000 * DigitAt(ds, Len(ds) - 7 * (i - 1) - 5)
             + 1000000 * DigitAt(ds, Len(ds) - 7 * (i - 1) - 6)])

\* The decimal digits of a, seven for each limb.
LimbDigits(a) ==
  [p \in 1..(7 * Len(a)) |->
     Digits[((a[Len(a) - ((p - 1) \div 7)] \div Pow10(6 - ((p - 1) % 7))) % 10) + 1]]

\* The decimal digits of a, the first not zero (none for zero).
BigToDigits(a) ==
  SubSeq(LimbDigits(a), LeadingZeros(LimbDigits(a), 1) + 1, 7 * Len(a))

\* -1, 0 or 1 as a is below, equal to or above b.
BigCmp(a, b) ==
  CASE Len(a) < Len(b) -> -1
    [] Len(a) > Len(b) -> 1
    [] Len(a) = Len(b) /\ a = b -> 0
    [] OTHER -> IF a[MaxOf({j \in 1..Len(a) : a[j] # b[j]})]
                   < b[MaxOf({j \in 1..Len(a) : a[j] # b[j]})] THEN -1 ELSE 1

\* Limb i of a * c + cin before the carries of the addition: the low part
\* of a[i] * c plus the high part of a[i-1] * c.
MulPart(a, c, cin, i) ==
  (IF i <= Len(a) THEN Limb(a[i] * c) ELSE 0)
  + (IF i = 1 THEN cin ELSE Carry(a[i - 1] * c))

\* Does the addition carry into limb i? Limb i-1 overflows by itself, or it
\* is full and a carry reaches it from a limb below through full limbs.
MulCarry(a, c, cin, i) ==
  /\ i > 1
  /\ \/ MulPart(a, c, cin, i - 1) >= 10000000
     \/ /\ MulPart(a, c, cin, i - 1) = 9999999
        /\ \E j \in 1..(i - 2) :
             /\ MulPart(a, c, cin, j) >= 10000000
             /\ \A k \in (j + 1)..(i - 2) : MulPart(a, c, cin, k) = 9999999

\* Limb i of a * c + cin.
MulLimb(a, c, cin, i) ==
  Limb(MulPart(a, c, cin, i) + (IF MulCarry(a, c, cin, i) THEN 1 ELSE 0))

\* a * c + cin, for c and cin of at most 200: one limb more than a has when
\* that limb is not zero.
BigMulSmall(a, c, cin) ==
  CASE a = <<>> \/ c = 0 -> IF cin = 0 THEN <<>> ELSE <<cin>>
    [] OTHER -> SubSeq([i \in 1..(Len(a) + 1) |-> MulLimb(a, c, cin, i)], 1,
                       Len(a) + (IF MulLimb(a, c, cin, Len(a) + 1) > 0 THEN 1 ELSE 0))

LimbAt(a, i) == IF i <= Len(a) THEN a[i] ELSE 0

\* Does the subtraction a - b borrow from limb i? Limb i-1 is too small by
\* itself, or it is equal and a borrow reaches it through equal limbs.
SubBorrow(a, b, i) ==
  /\ i > 1
  /\ \/ a[i - 1] < LimbAt(b, i - 1)
     \/ /\ a[i - 1] = LimbAt(b, i - 1)
        /\ \E j \in 1..(i - 2) :
             /\ a[j] < LimbAt(b, j)
             /\ \A k \in (j + 1)..(i - 2) : a[k] = LimbAt(b, k)

\* a - b, for a at least b.
BigSub(a, b) ==
  IF b = <<>> THEN a
  ELSE BigTrim([i \in 1..Len(a) |->
                  Limb(a[i] - LimbAt(b, i) - (IF SubBorrow(a, b, i) THEN 1 ELSE 0) + 10000000)])

\* a * 2^n.
RECURSIVE Times2Pow(_, _)
Times2Pow(a, n) ==
  CASE a = <<>> -> <<>>
    [] a # <<>> /\ n <= 7 -> BigMulSmall(a, Pow2(n), 0)
    [] OTHER -> Times2Pow(Times2Pow(a, n \div 2), n - (n \div 2))

\* a * 10^n, for n below 7.
Times10Small(a, n) ==
  CASE n = 0 -> a
    [] n = 1 -> BigMulSmall(a, 10, 0)
    [] n = 2 -> BigMulSmall(a, 100, 0)
    [] n = 3 -> BigMulSmall(BigMulSmall(a, 100, 0), 10, 0)
    [] n = 4 -> BigMulSmall(BigMulSmall(a, 100, 0), 100, 0)
    [] n = 5 -> BigMulSmall(BigMulSmall(BigMulSmall(a, 100, 0), 100, 0), 10, 0)
    [] n = 6 -> BigMulSmall(BigMulSmall(BigMulSmall(a, 100, 0), 100, 0), 100, 0)

\* a * 10^n: whole limbs of zeros below a * 10^(n % 7).
Times10Pow(a, n) ==
  IF a = <<>> THEN <<>> ELSE [i \in 1..(n \div 7) |-> 0] \o Times10Small(a, n % 7)

\* One digit of a long division: st is <<quotient, remainder, divisor>>, t
\* is the divisor shifted to the place of the digit d, the largest d with
\* d * t at most the remainder.
DivStep(st, t, d) ==
  <<BigMulSmall(st[1], 10, d), BigSub(st[2], BigMulSmall(t, d, 0)), st[3]>>

DivDigit(rem, t) == MaxOf({0} \cup {d \in 1..9 : BigCmp(rem, BigMulSmall(t, d, 0)) >= 0})

\* Long division from the digit of 10^hi down to the digit of 10^lo:
\* <<quotient, remainder, divisor>> continued from st, whose remainder is
\* below divisor * 10^(hi+1).
RECURSIVE LongDiv(_, _, _)
LongDiv(st, hi, lo) ==
  CASE st[2] = <<>> -> <<Times10Pow(st[1], hi - lo + 1), <<>>, st[3]>>
    [] st[2] # <<>> /\ hi = lo ->
         DivStep(st, Times10Pow(st[3], hi), DivDigit(st[2], Times10Pow(st[3], hi)))
    [] OTHER -> LongDiv(LongDiv(st, hi, ((hi + lo) \div 2) + 1), (hi + lo) \div 2, lo)

\* ------------------------------------------------------------------------
\* Doubles
\* ------------------------------------------------------------------------
\* A positive double is mant * 2^q with 2^52 <= mant < 2^53 and
\* -1074 <= q <= 971, or with 0 < mant < 2^52 and q = -1074.
DoubleInf == [k |-> "inf", mant |-> <<>>, q |-> 0]
DoubleZero == [k |-> "zero", mant |-> <<>>, q |-> 0]
Double(mant, q) ==
  CASE mant = <<>> -> DoubleZero
    [] mant = Times2Pow(<<1>>, 53) /\ q = 971 -> DoubleInf
    [] mant = Times2Pow(<<1>>, 53) /\ q < 971 ->
         [k |-> "fin", mant |-> Times2Pow(<<1>>, 52), q |-> q + 1]
    [] OTHER -> [k |-> "fin", mant |-> mant, q |-> q]

\* Round to nearest, ties to even: qr is <<quotient, remainder, divisor>>.
RoundQuotient(q, qr) ==
  IF \/ BigCmp(BigMulSmall(qr[2], 2, 0), qr[3]) > 0
     \/ BigCmp(BigMulSmall(qr[2], 2, 0), qr[3]) = 0 /\ qr[1] # <<>> /\ qr[1][1] % 2 = 1
    THEN Double(BigMulSmall(qr[1], 1, 1), q)
  ELSE Double(qr[1], q)

\* The double nearest to num / den among the multiples of 2^q, for
\* num / den below 2^(q+53).
DoubleScaled(num, den, q) ==
  RoundQuotient(q, LongDiv(<<<<>>, Times2Pow(num, Positive(0 - q)),
                             Times2Pow(den, Positive(q))>>, 15, 0))

\* The double nearest to num / den, which is at least 2^e2 and, for e2
\* below 1024, less than 2^(e2+1): 53 bits, fewer where the exponent
\* would go below -1074, Infinity from 2^1024 on.
DoubleAt(num, den, e2) ==
  IF e2 = 1024 THEN DoubleInf
  ELSE DoubleScaled(num, den, IF e2 - 52 < -1074 THEN -1074 ELSE e2 - 52)

\* The largest q of -1075..1024 with num / den at least 2^q (-1075 when none
\* is), for num / den at least 10^dexp and below 10^(dexp+1): as
\* 3.321928 < log2(10) < 3.321929, q lies between the two bounds tried, or
\* is 1024 when both are above it.
Log2Floor(num, den, dexp) ==
  MaxOf({-1075} \cup
        {q \in (IF ((dexp * 3321928) \div 1000000) - 1 > 1024 THEN 1024
                ELSE ((dexp * 3321928) \div 1000000) - 1)
               ..((((dexp + 1) * 3321929) \div 1000000) + 1) :
           /\ q >= -1074
           /\ q <= 1024
           /\ BigCmp(Times2Pow(num, Positive(0 - q)), Times2Pow(den, Positive(q))) >= 0})

\* The double nearest to the decimal ds * 10^ex, whose first digit is not
\* zero, for a decimal between 10^-330 and 10^310.
NearestDouble(ds, ex) ==
  DoubleAt(Times10Pow(BigFromDigits(ds), Positive(ex)),
           Times10Pow(<<1>>, Positive(0 - ex)),
           Log2Floor(Times10Pow(BigFromDigits(ds), Positive(ex)),
                     Times10Pow(<<1>>, Positive(0 - ex)), Len(ds) + ex - 1))

\* The largest u with num / den at least 10^u, for num / den = mant * 2^q
\* and a mant of nd digits: as 0.30102 < log10(2) < 0.30103, u lies between
\* the two bounds tried.
Log10Floor(num, den, q, nd) ==
  MaxOf({u \in (((q * 30103) \div 100000) + nd - 3)..(((q * 30103) \div 100000) + nd + 1) :
           BigCmp(Times10Pow(num, Positive(0 - u)), Times10Pow(den, Positive(u))) >= 0})

AllZeros(ds) == \A i \in 1..Len(ds) : ds[i] = "0"

\* The digits ds between zeros: l before them and r after them.
Padded(l, ds, r) == [i \in 1..l |-> "0"] \o ds \o [i \in 1..r |-> "0"]

\* -1, 0 or 1 as the digits a write a number below, equal to or above the
\* one the digits b write, for as many digits in both.
DigitsCmp(a, b) ==
  IF a = b THEN 0
  ELSE IF DigitVal(a[MinOf({i \in 1..Len(a) : a[i] # b[i]})])
          < DigitVal(b[MinOf({i \in 1..Len(a) : a[i] # b[i]})]) THEN -1
  ELSE 1

\* The digits of the number after the one the digits ds write.
DigitsPlusOne(ds) == BigToDigits(BigMulSmall(BigFromDigits(ds), 1, 1))

\* The first 19 digits of num / (den * 10^t), and whether more digits that
\* are not zero follow them.
Expansion(num, den, t) ==
  LongDiv(<<<<>>, Times10Pow(num, Positive(0 - t)), Times10Pow(den, Positive(t))>>, 18, 0)

ExpansionDigits(qr) == Padded(19 - Len(BigToDigits(qr[1])), BigToDigits(qr[1]), 0)

\* The decimals that read back as a double lie between the middle to the
\* double below it and the middle to the double above it, which are in the
\* range when the double is even. lo, x and hi are the expansions, as
\* <<quotient, remainder, divisor>>, of the lower middle, the double and the upper
\* middle; c is a decimal of 19 digits at the scale of the quotients.
AboveLow(c, lo, even) ==
  \/ DigitsCmp(c, ExpansionDigits(lo)) > 0
  \/ DigitsCmp(c, ExpansionDigits(lo)) = 0 /\ lo[2] = <<>> /\ even

BelowHigh(c, hi, even) ==
  \/ DigitsCmp(c, ExpansionDigits(hi)) < 0
  \/ DigitsCmp(c, ExpansionDigits(hi)) = 0 /\ (hi[2] # <<>> \/ even)

\* The decimal of k digits just below the double (its first k digits) and
\* the one just above it, at the scale of the quotients.
FloorDigits(x, k) == SubSeq(ExpansionDigits(x), 2, k + 1)
CeilDigits(x, k) == DigitsPlusOne(FloorDigits(x, k))
FloorExact(x, k) == AllZeros(SubSeq(ExpansionDigits(x), k + 2, 19)) /\ x[2] = <<>>
FloorReads(x, lo, even, k) ==
  FloorExact(x, k) \/ AboveLow(Padded(1, FloorDigits(x, k), 18 - k), lo, even)
CeilReads(x, hi, even, k) ==
  BelowHigh(Padded(k + 1 - Len(CeilDigits(x, k)), CeilDigits(x, k), 18 - k), hi, even)

\* Is the decimal above nearer to the double than the one below, or as
\* near and even?
CeilNearer(x, k) ==
  \/ DigitVal(ExpansionDigits(x)[k + 2]) > 5
  \/ /\ DigitVal(ExpansionDigits(x)[k + 2]) = 5
     /\ \/ ~(AllZeros(SubSeq(ExpansionDigits(x), k + 3, 19)) /\ x[2] = <<>>)
        \/ DigitVal(ExpansionDigits(x)[k + 1]) % 2 = 1

\* Number::toString's decimal: of the decimals of k digits that read back
\* as the double, the nearest to it, in 19 digits at the scale of the
\* quotients.
DigitsOfLength(x, lo, hi, even, k) ==
  IF /\ ~FloorExact(x, k)
     /\ CeilReads(x, hi, even, k)
     /\ (~FloorReads(x, lo, even, k) \/ CeilNearer(x, k))
    THEN Padded(k + 1 - Len(CeilDigits(x, k)), CeilDigits(x, k), 18 - k)
  ELSE Padded(1, FloorDigits(x, k), 18 - k)

\* ... for the fewest digits k that do: 17 digits always do.
ShortestDigits(x, lo, hi, even) ==
  DigitsOfLength(x, lo, hi, even,
    MinOf({17} \cup {k \in 1..16 : FloorReads(x, lo, even, k) \/ CeilReads(x, hi, even, k)}))

\* <<digits, t>> for the double mant * 2^q = x4 / den4, which has 18
\* digits before the point when divided by 10^t: Number::toString's decimal
\* is digits * 10^t. lo4 and hi4 are the middles to the neighbours.
ShortestScaled(mant, lo4, x4, hi4, den4, t) ==
  <<ShortestDigits(Expansion(x4, den4, t), Expansion(lo4, den4, t), Expansion(hi4, den4, t),
                   mant[1] % 2 = 0),
    t>>

\* The same, in units of 2^(q-2): the double is 4 * mant, the upper middle
\* 4 * mant + 2 and the lower middle 4 * mant - 2, or 4 * mant - 1 below a
\* power of two, where the doubles below are half as far apart.
ShortestUnits(mant, q, x4, den4) ==
  ShortestScaled(mant,
                 Times2Pow(BigMulSmall(BigSub(mant, <<1>>), 4,
                                       IF mant = Times2Pow(<<1>>, 52) /\ q > -1074 THEN 3 ELSE 2),
                           Positive(q - 2)),
                 x4,
                 Times2Pow(BigMulSmall(mant, 4, 2), Positive(q - 2)),
                 den4,
                 Log10Floor(x4, den4, q, Len(BigToDigits(mant))) - 17)

\* <<digits, t>> of the decimal digits * 10^t that Number::toString prints
\* for the double dbl.
ShortestDecimal(dbl) ==
  ShortestUnits(dbl.mant, dbl.q,
                Times2Pow(BigMulSmall(dbl.mant, 4, 0), Positive(dbl.q - 2)),
                Times2Pow(<<1>>, Positive(2 - dbl.q)))

\* ------------------------------------------------------------------------
\* parseFloat
\* ------------------------------------------------------------------------
\* The characters parseFloat trims: the WhiteSpace and LineTerminator code
\* points. A character outside ASCII is written by its code point: "U+2028"
\* stands for the one character U+2028, and a string holds no character
\* outside ASCII in another spelling.
WhiteSpace ==
  {" ", "\t", "\n", "\r", "\f", "",
   "U+000B", "U+00A0", "U+FEFF", "U+1680", "U+2000", "U+2001", "U+2002", "U+2003",
   "U+2004", "U+2005", "U+2006", "U+2007", "U+2008", "U+2009", "U+200A", "U+2028",
   "U+2029", "U+202F", "U+205F", "U+3000"}

\* Position of the first character of s at or after i that is not white space.
SkipSpace(s, i) == RunEnd(s, i, WhiteSpace)

\* The number the double dbl is: its sign and the digits Number::toString
\* prints for it.
FinShortest(neg, sd) ==
  FinDigits(neg,
            SubSeq(sd[1], LeadingZeros(sd[1], 1) + 1, Len(sd[1]) - TrailingZeros(sd[1], Len(sd[1]))),
            0 - sd[2] - TrailingZeros(sd[1], Len(sd[1])))

FromDouble(neg, dbl) ==
  CASE dbl.k = "inf" -> Inf(neg)
    [] dbl.k = "zero" -> Zero(neg)
    [] OTHER -> FinShortest(neg, ShortestDecimal(dbl))

\* The double nearest to (-1)^neg * ds * 10^-e, for digits ds that neither
\* start nor end with a zero. A decimal of at most 15 digits between 10^-307
\* and 10^308 is the shortest decimal of the double nearest to it; any other
\* decimal is rounded to its double: Infinity from 2^1024 on, zero up to half
\* the smallest double 2^-1074.
RoundToDouble(neg, ds, e) ==
  IF Len(ds) <= 15 /\ Len(ds) - e - 1 >= -307 /\ Len(ds) - e - 1 <= 307
    THEN FinDigits(neg, ds, e)
  ELSE IF Len(ds) - e - 1 > 308 THEN Inf(neg)
  ELSE IF Len(ds) - e - 1 < -324 THEN Zero(neg)
  ELSE FromDouble(neg, NearestDouble(ds, 0 - e))

\* The number (-1)^neg * ds * 10^-scale for the decimal digits ds.
Decimal(neg, ds, scale) ==
  IF LeadingZeros(ds, 1) = Len(ds) THEN Zero(neg)
  ELSE RoundToDouble(neg,
         SubSeq(ds, LeadingZeros(ds, 1) + 1, Len(ds) - TrailingZeros(ds, Len(ds))),
         scale - TrailingZeros(ds, Len(ds)))

\* Value of the exponent digits ds, 10^9 for a larger one: a string has
\* fewer than 2^29 characters, so an exponent of 10^9 or more takes every
\* decimal of a string out of the range of a double, whatever its digits.
ExponentValue(ds) ==
  IF Len(ds) - LeadingZeros(ds, 1) > 9 THEN 1000000000
  ELSE LimbAt(BigFromDigits(ds), 1) + 10000000 * LimbAt(BigFromDigits(ds), 2)

\* The exponent part at position p of s, applied to the digits ds of which
\* the last fracLen are the fraction.
ParseExponent(s, p, neg, ds, fracLen) ==
  LET isExp == p <= Len(s) /\ s[p] \in {"e", "E"}
      expSigned == isExp /\ p + 1 <= Len(s) /\ s[p + 1] \in {"+", "-"}
      q == IF expSigned THEN p + 2 ELSE p + 1
      expAbs == IF isExp THEN ExponentValue(SubSeq(s, q, q + DigitRun(s, q) - 1)) ELSE 0
  IN Decimal(neg, ds, IF expSigned /\ s[p + 1] = "-" THEN fracLen + expAbs
                      ELSE fracLen - expAbs)

\* The fraction part at position p of s, after the intLen digits before p.
ParseFraction(s, p, neg, intLen) ==
  LET dot == p <= Len(s) /\ s[p] = "."
      fracLen == IF dot THEN DigitRun(s, p + 1) ELSE 0
  IN IF intLen + fracLen = 0 THEN NaN
     ELSE ParseExponent(s, IF dot THEN p + 1 + fracLen ELSE p, neg,
                        SubSeq(s, p - intLen, p - 1)
                          \o (IF dot THEN SubSeq(s, p + 1, p + fracLen) ELSE <<>>),
                        fracLen)

\* The unsigned literal at position p of s: Infinity or decimal digits.
ParseUnsigned(s, p, neg) ==
  IF StartsAt(s, p, <<"I", "n", "f", "i", "n", "i", "t", "y">>) THEN Inf(neg)
  ELSE ParseFraction(s, p + DigitRun(s, p), neg, DigitRun(s, p))

\* The signed literal at position p of s.
ParseSigned(s, p) ==
  IF p <= Len(s) /\ s[p] \in {"+", "-"} THEN ParseUnsigned(s, p + 1, s[p] = "-")
  ELSE ParseUnsigned(s, p, FALSE)

\* The global parseFloat: the longest prefix of the trimmed string that is a
\* StrDecimalLiteral, NaN when there is none.
parseFloat(v) == ParseSigned(JsToString(v), SkipSpace(JsToString(v), 1))

\* The global isNaN on a number.
isNaN(v) == v.t = "number" /\ v.k = "nan"

\* ------------------------------------------------------------------------
\* Request inputs and outcomes of the external services
\* ------------------------------------------------------------------------
\* The connections on which upload requests are served concurrently; a new
\* request takes the first free one.
Reqs == {1, 2}

GoodName == Str(<<"S", "i", "t", "e", " ", "A">>)
OtherName == Str(<<"S", "i", "t", "e", " ", "B">>)
GoodDate == Str(<<"2", "0", "2", "4", "-", "0", "1", "-", "0", "1">>)
GoodLat == Str(<<"1", "2", ".", "3", "4">>)
GoodLon == Str(<<"5", "6", ".", "7", "8">>)

\* project_name fields: absent, empty, two names, 255 and 256 characters.
ProjectNames ==
  {Undefined, Str(<<>>), GoodName, OtherName, Str(Repeat("x", 255)), Str(Repeat("x", 256))}

\* monitored_date fields.
Dates == {Undefined, Str(<<>>), GoodDate}

\* (latitude, longitude) fields of the multipart body.
CoordPairs ==
  { <<GoodLat, GoodLon>>,
    <<Undefined, Undefined>>,
    <<GoodLat, Undefined>>,
    <<Str(<<>>), GoodLon>>,
    <<Str(<<"a", "b", "c">>), GoodLon>>,
    <<GoodLat, Str(<<"a", "b", "c">>)>>,
    <<Str(<<"I", "n", "f", "i", "n", "i", "t", "y">>), GoodLon>>,
    <<GoodLat, Str(<<"-", "I", "n", "f", "i", "n", "i", "t", "y">>)>>,
    <<Str(<<"0">>), Str(<<"-", "0", ".", "5">>)>>,
    <<Str(<<"1", "2", "a", "b", "c">>), GoodLon>>,
    <<Str(<<"\r", "1", "2", ".", "3", "4">>), GoodLon>>,
    <<Str(<<"1", "e", "4", "0", "0">>), GoodLon>>,
    <<GoodLat, Str(<<"1", "e", "-", "4", "0", "0">>)>>,
    <<Str(<<"1", "4", ".", "5", "9", "9", "5", "1", "2", "3", "4", "5", "6">>), GoodLon>> }

\* What multer hands to the handler, req.body and the number of files: each
\* field varied in turn around a request that passes.
UploadInputs ==
  { [project_name |-> p, monitored_date |-> GoodDate, latitude |-> GoodLat,
     longitude |-> GoodLon, nfiles |-> 1] : p \in ProjectNames }
  \cup
  { [project_name |-> GoodName, monitored_date |-> d, latitude |-> GoodLat,
     longitude |-> GoodLon, nfiles |-> 1] : d \in Dates }
  \cup
  { [project_name |-> p, monitored_date |-> GoodDate, latitude |-> GoodLat,
     longitude |-> GoodLon, nfiles |-> n] : p \in {Undefined, GoodName}, n \in 0..MaxFiles }
  \cup
  { [project_name |-> GoodName, monitored_date |-> GoodDate, latitude |-> c[1],
     longitude |-> c[2], nfiles |-> 1] : c \in CoordPairs }

NoGpsTag == Str(<<"n", "o", " ", "G", "P", "S", " ", "t", "a", "g">>)
NoCoordinatesFound == Str(<<"N", "o", " ", "c", "o", "o", "r", "d", "i", "n", "a", "t", "e", "s", " ", "f", "o", "u", "n", "d", ".">>)

ExtractData(success, latitude, longitude, message) ==
  [t |-> "object", success |-> success, latitude |-> latitude,
   longitude |-> longitude, message |-> message]

\* Outcomes of axios.post to the extraction service: a rejected promise
\* (unreachable, non-2xx), or a response whose body is data.
ExtractOutcomes ==
  { [kind |-> "error"],
    [kind |-> "response", data |-> Null],
    [kind |-> "response", data |-> ExtractData(Undefined, Undefined, Undefined, Undefined)],
    [kind |-> "response", data |-> ExtractData(Bool(FALSE), Undefined, Undefined, NoGpsTag)],
    [kind |-> "response", data |-> ExtractData(Bool(FALSE), Undefined, Undefined, Undefined)],
    [kind |-> "response", data |-> ExtractData(Bool(TRUE), Undefined, Undefined, Undefined)],
    [kind |-> "response", data |-> ExtractData(Bool(TRUE), Fin(FALSE, 1234, 2), Fin(TRUE, 5678, 2), Undefined)] }

GeoData(results) == [t |-> "object", results |-> results]

\* Outcomes of axios.get to the geocoder: a rejected promise (transport
\* error, timeout, non-2xx), or a response whose body is data.
GeoOutcomes ==
  { [kind |-> "error"],
    [kind |-> "response", data |-> GeoData(<<>>)],
    [kind |-> "response", data |-> GeoData(<<[formatted |-> "1 Main St"]>>)] }


\* ------------------------------------------------------------------------
\* State
\* ------------------------------------------------------------------------
VARIABLES
  req,       \* per connection: the upload request being served and its handler
  disk,      \* paths of the files that exist in uploads/
  nextFile,  \* names multer has handed out so far
  uploads,   \* upload requests received so far
  ended,     \* the request the last step ended, with its response
  inserts,   \* the values of the db.query INSERT calls made so far, in order
  faults     \* whether fs.unlinkSync may throw in this run

vars == <<req, disk, nextFile, uploads, ended, inserts, faults>>

NoBody ==
  [project_name |-> Undefined, monitored_date |-> Undefined,
   latitude |-> Undefined, longitude |-> Undefined]

NoOutcome == [kind |-> "none"]

\* A connection with no request: the handler's locals and, for the record,
\* the calls it made (extractCalls, geocodeCalls, insertCalls, unlinks), what
\* the services answered and the exception that ended it, if any.
IdleReq ==
  [pc |-> "idle", body |-> NoBody, files |-> <<>>, lat |-> Undefined, lon |-> Undefined,
   address |-> "", res |-> <<>>, extractCalls |-> <<>>, extracted |-> NoOutcome,
   geocodeCalls |-> <<>>, geocoded |-> NoOutcome, insertCalls |-> <<>>, unlinks |-> <<>>,
   thrown |-> ""]

\* The file multer stores under uploads/ with the generated name n: every
\* client sends its file under the same original name.
File(n) == [originalname |-> "photo.jpg", filename |-> n, path |-> n]

\* No request ended in the last step.
NoEnd == [kind |-> "none"]

\* The handler of q has ended: it responded, or it threw (an async handler's
\* promise is then rejected) without a response.
Ended(q) == q.pc \in {"done", "crashed"}

\* The handler on connection r reaches q: a handler that has ended frees its
\* connection, and its request is the one the step ended.
Settle(r, q) ==
  IF Ended(q)
    THEN /\ req' = [req EXCEPT ![r] = IdleReq]
         /\ ended' = [kind |-> "upload", conn |-> r, q |-> q]
    ELSE /\ req' = [req EXCEPT ![r] = q]
         /\ ended' = NoEnd

\* res.status(status).json(json), which ends the handler.
Respond(q, status, json) ==
  [q EXCEPT !.res = Append(@, [status |-> status, json |-> json]), !.pc = "done"]

\* Outcomes of one fs.unlinkSync call.
UnlinkOutcomes == IF faults THEN {"ok", "throw"} ELSE {"ok"}

\* The properties of the object require("./db") returns.
DbExports == {"db", "r2Client"}

\* What calling db.query throws: the object has no property query.
QueryThrows ==
  IF "query" \in DbExports THEN "" ELSE "TypeError: db.query is not a function"

\* ------------------------------------------------------------------------
\* POST /upload
\* ------------------------------------------------------------------------
\* validator.isLength(str, {min, max}) on a string without surrogate pairs.
isLength(str, min, max) == Len(str.s) >= min /\ Len(str.s) <= max

\* ValidationError with the length limit off by one (max: 256).
ValidationError_OffByOne(body, files) ==
  IF ~Truthy(body.project_name) \/ ~Truthy(body.monitored_date) \/ ~(Len(files) > 0)
    THEN "Missing required fields."
  ELSE IF ~isLength(body.project_name, 1, 256) THEN "Invalid project name."
  ELSE ""

\* The two validation returns: the error message, "" when the request passes.
ValidationError(body, files) ==
  IF ~Truthy(body.project_name) \/ ~Truthy(body.monitored_date) \/ ~(Len(files) > 0)
    THEN "Missing required fields."
  ELSE IF ~isLength(body.project_name, 1, 255) THEN "Invalid project name."
  ELSE ""

\* NeedsExtraction testing the parsed numbers for truthiness, so that a
\* coordinate of 0 counts as missing.
NeedsExtraction_ZeroIsMissing(lat, lon) ==
  ~Truthy(parseFloat(lat)) \/ ~Truthy(parseFloat(lon))

\* The test that sends the handler to the extraction service.
NeedsExtraction(lat, lon) ==
  ~Truthy(lat) \/ ~Truthy(lon) \/ isNaN(parseFloat(lat)) \/ isNaN(parseFloat(lon))

\* The handler with lat and lon assigned, address initialised and the
\* geocoding request sent: it waits for the geocoder.
GeocodeAt(q, lat, lon) ==
  [q EXCEPT !.lat = lat, !.lon = lon, !.address = "Unknown Location",
            !.geocodeCalls = Append(@, <<lat, lon>>), !.pc = "geocoding"]

\* lat = parseFloat(lat), lon = parseFloat(lon), let address = "Unknown
\* Location", then the geocoding request.
StartGeocode(q) == GeocodeAt(q, parseFloat(q.lat), parseFloat(q.lon))

\* The handler from its entry to its first await (or its validation return).
UploadHandler(q) ==
  LET err == ValidationError(q.body, q.files)
      q1 == [q EXCEPT !.lat = q.body.latitude, !.lon = q.body.longitude]
  IN IF err # "" THEN Respond(q, 400, [error |-> err])
     ELSE IF NeedsExtraction(q1.lat, q1.lon)
       THEN [q1 EXCEPT !.extractCalls = Append(@, q.files[1].path), !.pc = "extracting"]
     ELSE StartGeocode(q1)

\* A request arrives and the multer middleware stores its files under fresh
\* names and parses its body; the handler has not started.
MulterStore(r) ==
  /\ req[r].pc = "idle"
  /\ \A r2 \in Reqs : r2 < r => req[r2].pc # "idle"
  /\ uploads < MaxUploads
  /\ \E in \in UploadInputs :
       LET files == [i \in 1..in.nfiles |-> File(nextFile + i)]
           body == [project_name |-> in.project_name, monitored_date |-> in.monitored_date,
                    latitude |-> in.latitude, longitude |-> in.longitude]
       IN /\ req' = [req EXCEPT ![r] = [IdleReq EXCEPT !.pc = "receiving", !.body = body,
                                                         !.files = files]]
          /\ disk' = disk \cup {files[i].path : i \in 1..in.nfiles}
          /\ nextFile' = nextFile + in.nfiles
  /\ uploads' = uploads + 1
  /\ ended' = NoEnd
  /\ UNCHANGED <<inserts, faults>>

\* The request is aborted, or multer rejects it: multer removes the files it
\* stored for the request and the handler never runs.
MulterAbort(r) ==
  /\ req[r].pc = "receiving"
  /\ req' = [req EXCEPT ![r] = IdleReq]
  /\ disk' = disk \ {req[r].files[i].path : i \in 1..Len(req[r].files)}
  /\ ended' = [kind |-> "aborted", conn |-> r, q |-> req[r]]
  /\ UNCHANGED <<nextFile, uploads, inserts, faults>>

\* multer calls next(): the handler runs to its first await or to its
\* validation return.
PostUpload(r) ==
  /\ req[r].pc = "receiving"
  /\ Settle(r, UploadHandler(req[r]))
  /\ UNCHANGED <<disk, nextFile, uploads, inserts, faults>>

\* Where the try block goes for the outcome o of the extraction request:
\* "catch" (the request was rejected, or reading data.success threw),
\* "missing" (!extractData.success) or "found".
ExtractBranch(o) ==
  IF o.kind = "error" \/ o.data.t \in {"null", "undefined"} THEN "catch"
  ELSE IF ~Truthy(o.data.success) THEN "missing"
  ELSE "found"

\* The body of the 400 response of the "missing" branch.
MissingGpsJson(data) ==
  [error |-> "Missing or invalid GPS metadata. Image was not saved.",
   message |-> IF Truthy(data.message) THEN data.message ELSE NoCoordinatesFound]

\* AfterExtract whose catch block does not return after its response: the
\* handler goes on to the geocoding request.
AfterExtract_NoReturn(q0, o, u1, u2) ==
  LET q == [q0 EXCEPT !.extracted = o]
      path == q.files[1].path
      branch == ExtractBranch(o)
      Catch(qc, u) ==
        IF u = "ok"
          THEN [q |-> StartGeocode([qc EXCEPT !.unlinks = Append(@, "ok"),
                                              !.res = Append(@, [status |-> 500,
                                                                 json |-> [error |-> "EXIF extraction failed"]])]),
                unlinked |-> {path}]
          ELSE [q |-> [qc EXCEPT !.unlinks = Append(@, "throw"), !.pc = "crashed",
                                 !.thrown = "fs.unlinkSync"],
                unlinked |-> {}]
  IN CASE branch = "found" ->
            [q |-> StartGeocode([q EXCEPT !.lat = o.data.latitude, !.lon = o.data.longitude]),
             unlinked |-> {}]
       [] branch = "missing" ->
            IF u1 = "ok"
              THEN [q |-> Respond([q EXCEPT !.unlinks = Append(@, "ok")], 400,
                                   MissingGpsJson(o.data)),
                    unlinked |-> {path}]
              ELSE Catch([q EXCEPT !.unlinks = Append(@, "throw")], u2)
       [] branch = "catch" -> Catch(q, u1)

\* The handler from the extraction answer o to its next await or its end;
\* u1 and u2 are the outcomes of the first and second fs.unlinkSync call made.
\* A throw of the unlinkSync in the try block lands in the catch block; a
\* throw in the catch block leaves the handler (no response).
AfterExtract(q0, o, u1, u2) ==
  LET q == [q0 EXCEPT !.extracted = o]
      path == q.files[1].path
      branch == ExtractBranch(o)
      Catch(qc, u) ==
        IF u = "ok"
          THEN [q |-> Respond([qc EXCEPT !.unlinks = Append(@, "ok")], 500,
                               [error |-> "EXIF extraction failed"]),
                unlinked |-> {path}]
          ELSE [q |-> [qc EXCEPT !.unlinks = Append(@, "throw"), !.pc = "crashed",
                                 !.thrown = "fs.unlinkSync"],
                unlinked |-> {}]
  IN CASE branch = "found" ->
            [q |-> StartGeocode([q EXCEPT !.lat = o.data.latitude, !.lon = o.data.longitude]),
             unlinked |-> {}]
       [] branch = "missing" ->
            IF u1 = "ok"
              THEN [q |-> Respond([q EXCEPT !.unlinks = Append(@, "ok")], 400,
                                   MissingGpsJson(o.data)),
                    unlinked |-> {path}]
              ELSE Catch([q EXCEPT !.unlinks = Append(@, "throw")], u2)
       [] branch = "catch" -> Catch(q, u1)

\* The extraction request settles.
ExtractReturn(r) ==
  /\ req[r].pc = "extracting"
  /\ \E o \in ExtractOutcomes, u1 \in UnlinkOutcomes, u2 \in UnlinkOutcomes :
       LET a == AfterExtract(req[r], o, u1, u2)
       IN /\ Settle(r, a.q)
          /\ disk' = disk \ a.unlinked
  /\ UNCHANGED <<nextFile, uploads, inserts, faults>>

\* ResolveAddress with address initialised to the empty string.
ResolveAddress_NoSentinel(g) ==
  IF g.kind = "error" THEN ""
  ELSE IF g.data.t = "object" /\ Len(g.data.results) > 0 THEN g.data.results[1].formatted
  ELSE ""

\* The address for the outcome g of the geocoding request.
ResolveAddress(g) ==
  IF g.kind = "error" THEN "Unknown Location"
  ELSE IF g.data.t = "object" /\ Len(g.data.results) > 0 THEN g.data.results[1].formatted
  ELSE "Unknown Location"

\* InsertValues that takes the storage key from the name the client gave
\* the file.
InsertValues_OriginalName(q) ==
  [project_name |-> q.body.project_name, monitored_date |-> q.body.monitored_date,
   filename |-> q.files[1].originalname, filepath |-> q.files[1].originalname,
   latitude |-> q.lat, longitude |-> q.lon, address |-> q.address]

\* The values the handler binds to the INSERT statement.
InsertValues(q) ==
  [project_name |-> q.body.project_name, monitored_date |-> q.body.monitored_date,
   filename |-> q.files[1].filename, filepath |-> q.files[1].path,
   latitude |-> q.lat, longitude |-> q.lon, address |-> q.address]

\* db.query(insertQuery, values, callback): the call throws, the callback is
\* never registered and the exception leaves the handler.
InsertQuery(q) ==
  [q EXCEPT !.insertCalls = Append(@, InsertValues(q)), !.pc = "crashed",
            !.thrown = QueryThrows]

\* The handler after the geocoder's answer g: address is set.
Geocoded(q, g) == [q EXCEPT !.geocoded = g, !.address = ResolveAddress(g)]

\* The geocoding request settles; the handler builds the INSERT and calls
\* db.query.
GeocodeReturn(r) ==
  /\ req[r].pc = "geocoding"
  /\ \E g \in GeoOutcomes :
       /\ Settle(r, InsertQuery(Geocoded(req[r], g)))
       /\ inserts' = Append(inserts, InsertValues(Geocoded(req[r], g)))
  /\ UNCHANGED <<disk, nextFile, uploads, faults>>

\* ------------------------------------------------------------------------
\* GET /images and DELETE /images
\* ------------------------------------------------------------------------
\* A handler whose first statement is a db.query call: the call throws
\* before a statement is sent, so the handler sends no response, no query
\* reaches a database and no file is unlinked. (The exception goes to the
\* framework; what that sends the client is not the handler's doing.)
QueryHandler(kind) ==
  [kind |-> kind, res |-> <<>>, queries |-> <<>>, unlinks |-> <<>>, thrown |-> QueryThrows]

\* A GET /images request.
GetImages ==
  /\ ended' = QueryHandler("images")
  /\ UNCHANGED <<req, disk, nextFile, uploads, inserts, faults>>

\* A DELETE /images request.
DeleteImages ==
  /\ ended' = QueryHandler("purge")
  /\ UNCHANGED <<req, disk, nextFile, uploads, inserts, faults>>

\* ------------------------------------------------------------------------
\* Specifications
\* ------------------------------------------------------------------------
InitState ==
  /\ req = [r \in Reqs |-> IdleReq]
  /\ disk = {}
  /\ nextFile = 0
  /\ uploads = 0
  /\ ended = NoEnd
  /\ inserts = <<>>

\* The local file system performs every delete it is asked for.
Init == InitState /\ faults = FALSE

\* Any fs.unlinkSync call may throw.
InitFaulty == InitState /\ faults = TRUE

Next ==
  \/ \E r \in Reqs : MulterStore(r)
  \/ \E r \in Reqs : MulterAbort(r)
  \/ \E r \in Reqs : PostUpload(r)
  \/ \E r \in Reqs : ExtractReturn(r)
  \/ \E r \in Reqs : GeocodeReturn(r)
  \/ GetImages
  \/ DeleteImages

Spec == Init /\ [][Next]_vars

SpecFaulty == InitFaulty /\ [][Next]_vars

\* ------------------------------------------------------------------------
\* Properties
\* ------------------------------------------------------------------------
\* The upload requests in the state: those being served and the one the last
\* step ended.
Requests ==
  {req[r] : r \in Reqs} \cup (IF ended.kind = "upload" THEN {ended.q} ELSE {})

\* The last step ended a GET /images request.
ReadEnded == ended.kind = "images"

\* The last step ended a DELETE /images request.
PurgeEnded == ended.kind = "purge"

\* Those whose handler has started.
Started == {q \in Requests : q.pc \notin {"idle", "receiving"}}

\* The upload requests the last step answered.
Answered == {q \in Started : q.pc = "done" /\ Len(q.res) > 0}

\* The upload requests whose handler the last step ended.
Finished == {q \in Started : Ended(q)}

Status(q) == q.res[1].status

Json(q) == q.res[1].json

\* The request is one the validation step must reject: project name empty
\* (or absent) or longer than 255 characters, monitored date absent, no file.
MustReject(q) ==
  \/ q.body.project_name.t = "undefined"
  \/ Len(q.body.project_name.s) = 0
  \/ Len(q.body.project_name.s) > 255
  \/ q.body.monitored_date.t = "undefined"
  \/ Len(q.files) = 0

\* The request passes validation.
Valid(q) == ~MustReject(q) /\ Truthy(q.body.monitored_date)

\* latitude and longitude are both present and each parses as a finite number.
ClientCoordsFinite(q) ==
  /\ q.body.latitude.t # "undefined"
  /\ q.body.longitude.t # "undefined"
  /\ IsFinite(parseFloat(q.body.latitude))
  /\ IsFinite(parseFloat(q.body.longitude))

\* C1: once the response of an upload request has been sent, the files the
\* upload middleware stored for the request no longer exist on disk.
C1_TempFileGoneAfterResponse ==
  \A q \in Answered : \A k \in 1..Len(q.files) : q.files[k].path \notin disk

\* C2: a request that passes validation and whose latitude and longitude are
\* both present and parse as finite numbers never calls the extraction
\* service, and every later step (the geocoding request, the handler's
\* coordinates, the values bound to the INSERT) carries the client's values.
C2_ClientCoordsSkipExtraction ==
  \A q \in Started :
    Valid(q) /\ ClientCoordsFinite(q) =>
      /\ q.extractCalls = <<>>
      /\ q.extracted = NoOutcome
      /\ q.geocodeCalls = <<<<parseFloat(q.body.latitude), parseFloat(q.body.longitude)>>>>
      /\ q.lat = parseFloat(q.body.latitude)
      /\ q.lon = parseFloat(q.body.longitude)
      /\ \A k \in 1..Len(q.insertCalls) :
           /\ q.insertCalls[k].latitude = parseFloat(q.body.latitude)
           /\ q.insertCalls[k].longitude = parseFloat(q.body.longitude)

\* C2's case: a request with client coordinates "0" and "-0.5" went through
\* geocoding to the INSERT without any call to the extraction service.
C2_Witness ==
  \E q \in Finished :
    /\ q.body.latitude = Str(<<"0">>)
    /\ q.extractCalls = <<>>
    /\ q.geocoded # NoOutcome
    /\ Len(q.insertCalls) = 1
    /\ q.insertCalls[1].longitude = Fin(TRUE, 5, 1)

\* C3: a request that passes validation and whose latitude or longitude is
\* absent, non-numeric or non-finite calls the extraction service with its
\* first file before any later step runs.
C3_BadCoordsAlwaysExtract ==
  \A q \in Started :
    Valid(q) /\ ~ClientCoordsFinite(q) =>
      /\ q.extractCalls = <<q.files[1].path>>
      /\ (q.geocodeCalls # <<>> => q.extracted # NoOutcome)

\* The extraction service answered the request with success = false.
ExtractionSaidNo(q) ==
  /\ q.extracted.kind = "response"
  /\ q.extracted.data.t = "object"
  /\ q.extracted.data.success = Bool(FALSE)

\* C4: when the extraction service answers success = false, the request ends
\* with a 400 response that carries the service's message, its temp file is
\* gone and it has made no INSERT.
C4_MissingGpsEnds400 ==
  \A q \in Started :
    ExtractionSaidNo(q) =>
      /\ q \in Answered
      /\ Len(q.res) = 1
      /\ Status(q) = 400
      /\ (q.extracted.data.message.t = "string" /\ Len(q.extracted.data.message.s) > 0
            => Json(q).message = q.extracted.data.message)
      /\ q.files[1].path \notin disk
      /\ q.geocodeCalls = <<>>
      /\ q.insertCalls = <<>>

\* The extraction service was unreachable or its output malformed: the
\* request was rejected, the body is no object, success is no boolean, or
\* success is true without a latitude and longitude that are finite numbers.
ExtractionUnavailable(q) ==
  /\ q.extracted.kind # "none"
  /\ \/ q.extracted.kind = "error"
     \/ q.extracted.data.t # "object"
     \/ q.extracted.data.success.t # "boolean"
     \/ /\ q.extracted.data.success = Bool(TRUE)
        /\ ~(IsFinite(q.extracted.data.latitude) /\ IsFinite(q.extracted.data.longitude))

\* C5: when the extraction service is unreachable or its output malformed,
\* the request ends with a 500 response, its temp file is deleted, and no
\* geocoding request and no INSERT is made for it.
C5_ExtractionUnavailableEnds500 ==
  \A q \in Started :
    ExtractionUnavailable(q) =>
      /\ q \in Answered
      /\ Status(q) = 500
      /\ q.files[1].path \notin disk
      /\ q.geocodeCalls = <<>>
      /\ q.insertCalls = <<>>

\* C6: a request the validation step must reject is answered 400 at once:
\* no extraction request, no geocoding request, no INSERT.
C6_InvalidRequestRejected ==
  \A q \in Started :
    MustReject(q) =>
      /\ q \in Answered
      /\ Len(q.res) = 1
      /\ Status(q) = 400
      /\ q.extractCalls = <<>>
      /\ q.geocodeCalls = <<>>
      /\ q.insertCalls = <<>>

\* C6's case: a request with a project name of 256 characters, a date and a
\* file was answered 400.
C6_Witness ==
  \E q \in Answered :
    /\ q.body.project_name.t = "string"
    /\ Len(q.body.project_name.s) = 256
    /\ Len(q.files) = 1
    /\ Status(q) = 400
    /\ Json(q).error = "Invalid project name."

\* The geocoding request failed: a rejected promise (transport error,
\* timeout, non-2xx) or an empty results list.
GeocodingFailed(q) ==
  \/ q.geocoded.kind = "error"
  \/ /\ q.geocoded.kind = "response"
     /\ q.geocoded.data.t = "object"
     /\ Len(q.geocoded.data.results) = 0

\* C7: after a geocoding failure the address is exactly "Unknown Location"
\* and the handler has gone on to the INSERT, to which it binds that
\* address; the failure has produced no failure response.
C7_GeocodingFailureAbsorbed ==
  \A q \in Started :
    GeocodingFailed(q) =>
      /\ q.address = "Unknown Location"
      /\ Len(q.insertCalls) = 1
      /\ q.insertCalls[1].address = "Unknown Location"
      /\ \A k \in 1..Len(q.res) : q.res[k].status = 200

\* C7's case: the geocoding request was rejected and the handler called
\* db.query with the address "Unknown Location".
C7_Witness ==
  \E q \in Finished :
    /\ q.geocoded.kind = "error"
    /\ Len(q.insertCalls) = 1
    /\ q.insertCalls[1].address = "Unknown Location"

\* The request reached the INSERT.
ReachedInsert(q) == q.insertCalls # <<>>

\* C8: an upload answered 200 has made exactly one INSERT, and it was
\* accepted; an upload answered 400 or 500 has made none; and a GET /images
\* request sends the database nothing but SELECT statements.
C8_OneRecordPerSuccessfulUpload ==
  /\ \A q \in Started : \A k \in 1..Len(q.res) :
       /\ q.res[k].status = 200 => Len(q.insertCalls) = 1 /\ q.thrown = ""
       /\ q.res[k].status \in {400, 500} => q.insertCalls = <<>>
  /\ ReadEnded => \A k \in 1..Len(ended.queries) : ended.queries[k] = "SELECT"

\* C8's case: the extraction request of an upload failed and the upload
\* was answered 500 without a geocoding request or an INSERT.
C8_Witness ==
  \E q \in Answered :
    /\ Status(q) = 500
    /\ q.extractCalls # <<>>
    /\ q.unlinks = <<"ok">>
    /\ q.geocodeCalls = <<>>
    /\ q.insertCalls = <<>>

\* C9: the 200 response of an upload carries the record id, the artifact
\* URL, the coordinates and the address, and an upload that passes
\* validation with finite client coordinates and reaches the INSERT gets
\* such a response unless the INSERT fails.
C9_ResponseHasArtifactUrl ==
  \A q \in Finished :
    Valid(q) /\ ClientCoordsFinite(q) =>
      /\ q \in Answered
      /\ (Status(q) = 200 =>
            {"id", "r2_url", "latitude", "longitude", "address"} \subseteq DOMAIN Json(q))

\* C10: a GET /images request is answered with the rows of one query, and
\* the answer holds exactly one row per project name.
C10_OneEntryPerProject ==
  ReadEnded =>
    /\ Len(ended.res) = 1
    /\ Len(ended.queries) = 1
    /\ (ended.res[1].status = 200 =>
          \A e1, e2 \in ended.res[1].json :
            e1.project_name = e2.project_name => e1 = e2)

\* C13: the count a successful purge reports equals the number of rows its
\* DELETE removed from the images table.
C13_DeletedCountIsRowsRemoved ==
  PurgeEnded =>
    /\ Len(ended.res) = 1
    /\ (ended.res[1].status = 200 =>
          ended.res[1].json.deletedCount = ended.res[1].json.removed)

\* C14: the success response of a purge carries a list of warnings, one per
\* unlinkSync call of the purge that threw.
C14_WarningsPerFailure ==
  PurgeEnded =>
    /\ ended.res # <<>>
    /\ "warnings" \in DOMAIN ended.res[1].json
    /\ Len(ended.res[1].json.warnings)
         = Cardinality({k \in 1..Len(ended.unlinks) : ended.unlinks[k] = "throw"})

\* C15: any two INSERTs bind distinct filenames and distinct file paths,
\* also when the two uploads carry the same fields and the same original
\* file name, one after the other or at the same time: no two rows share a
\* storage key.
C15_DistinctRecordsAndKeys ==
  \A i, j \in 1..Len(inserts) :
    i # j =>
      /\ inserts[i].filename # inserts[j].filename
      /\ inserts[i].filepath # inserts[j].filepath

\* C15's case: two uploads with the same project name, date and coordinates
\* each reached an INSERT of their own.
C15_Witness ==
  /\ Len(inserts) = 2
  /\ inserts[1].project_name = inserts[2].project_name
  /\ inserts[1].monitored_date = inserts[2].monitored_date
  /\ inserts[1].latitude = inserts[2].latitude
  /\ inserts[1].longitude = inserts[2].longitude
  /\ inserts[1].address = inserts[2].address
  /\ inserts[1].filename # inserts[2].filename

\* C16: the latitude and longitude of every geocoding request, of every
\* INSERT and of every 200 response are finite numbers.
C16_CoordinatesFinite ==
  \A q \in Started :
    /\ \A k \in 1..Len(q.geocodeCalls) :
         IsFinite(q.geocodeCalls[k][1]) /\ IsFinite(q.geocodeCalls[k][2])
    /\ \A k \in 1..Len(q.insertCalls) :
         IsFinite(q.insertCalls[k].latitude) /\ IsFinite(q.insertCalls[k].longitude)
    /\ (q \in Answered /\ Status(q) = 200 =>
          IsFinite(Json(q).latitude) /\ IsFinite(Json(q).longitude))

\* C17: when the INSERT of an upload fails the request is answered 500 and
\* its stored file is not removed: it stays in uploads/.
C17_FailedInsertOrphansFile ==
  \A q \in Finished :
    ReachedInsert(q) /\ (\A k \in 1..Len(q.res) : q.res[k].status # 200) =>
      /\ q.res = <<[status |-> 500, json |-> [error |-> "Internal Server Error."]]>>
      /\ q.files[1].path \in disk

\* C18: a DELETE /images request lists the rows, tries to unlink the file of
\* every row it lists and removes no row it has not listed: its statements
\* are the SELECT and then the DELETE, with the unlinks in between.
C18_PurgeAttemptsEveryRemovedRow ==
  PurgeEnded =>
    /\ ended.queries # <<>>
    /\ ended.queries[1] = "SELECT"
    /\ (Len(ended.queries) > 1 => ended.res # <<>>)

\* C20: an upload request whose handler has ended has sent exactly one
\* response, with status 200, 400 or 500, whatever the extraction service,
\* the geocoding service, the INSERT and the unlinkSync calls did.
C20_ExactlyOneResponse ==
  ended.kind = "upload" =>
    /\ Len(ended.q.res) = 1
    /\ ended.q.res[1].status \in {200, 400, 500}
====
